---- MODULE Spec2Model ----
(***************************************************************************)
(* A model of pyarb.py: the AWG615 waveform file codec (WFMFile), the      *)
(* ASCII pulse reader (PulseTxtFile) and the batch converter (Converter).  *)
(*                                                                         *)
(* Files and strings are sequences of byte values 0..255.  A Python float  *)
(* (a double) is modelled by its exact decimal value                       *)
(*     [neg, digits, exp]  =  (-1)^neg * d1.d2d3... * 10^exp               *)
(* with digits free of leading and trailing zeros (<<>> is zero); the      *)
(* 4-byte IEEE-754 single is the record [sign, exp, mant] of its fields.   *)
(***************************************************************************)
EXTENDS Integers, Sequences, FiniteSets, TLC

VARIABLES
    \* --- codec: one WFMFile written and read back, or read from outside
    series,     \* the samples handed to the encoder: <<[amplitude, marker]>>
    clock,      \* the clock rate handed to the encoder
    wfm,        \* the bytes of the waveform file
    origin,     \* "none" | "encoded" | "external": where wfm came from
    res,        \* what WFMFile.read_data did on wfm
    \* --- length prefix of write_data as a function of len(data)
    plen,       \* len(data)
    pout,       \* what write_data wrote between header and records
    \* --- converter application
    fs,         \* the directory: file name -> bytes, or NoFile
    choices,    \* Converter.choices
    selected,   \* Converter.selected
    statusText, \* Converter.statusText: the number of lines _feedback added
    pc,         \* position inside Converter.convert
    idx,        \* index into selected of the file being converted
    parsed,     \* (clock, size, data) of the file being converted
    exc,        \* the exception that ended convert, or "none"
    homeDir     \* Converter.homeDir: "unset" | "cwd" | "elsewhere" | "notadir"

codecVars == <<series, clock, wfm, origin, res>>
prefixVars == <<plen, pout>>
convVars == <<fs, choices, selected, statusText, pc, idx, parsed, exc, homeDir>>
vars == <<series, clock, wfm, origin, res, plen, pout,
          fs, choices, selected, statusText, pc, idx, parsed, exc, homeDir>>

(***************************************************************************)
(* Bounds of the model.                                                    *)
(***************************************************************************)
MaxSamples == 2
MaxLen == 60
MaxDeclared == 11
MaxBody == 11
MaxSelected == 2
MaxFeedback == 4

(***************************************************************************)
(* Bytes and characters.                                                   *)
(***************************************************************************)
Ascii(c) ==
    CASE c = "#" -> 35 [] c = " " -> 32 [] c = "=" -> 61 [] c = "." -> 46
      [] c = "+" -> 43 [] c = "-" -> 45 [] c = "\r" -> 13 [] c = "\n" -> 10
      [] c = "\t" -> 9
      [] c = "0" -> 48 [] c = "1" -> 49 [] c = "2" -> 50 [] c = "3" -> 51
      [] c = "4" -> 52 [] c = "5" -> 53 [] c = "6" -> 54 [] c = "7" -> 55
      [] c = "8" -> 56 [] c = "9" -> 57
      [] c = "A" -> 65 [] c = "C" -> 67 [] c = "E" -> 69 [] c = "G" -> 71
      [] c = "I" -> 73 [] c = "K" -> 75 [] c = "L" -> 76 [] c = "M" -> 77
      [] c = "O" -> 79 [] c = "X" -> 88
      [] c = "a" -> 97 [] c = "b" -> 98 [] c = "c" -> 99 [] c = "e" -> 101
      [] c = "f" -> 102 [] c = "i" -> 105 [] c = "k" -> 107 [] c = "l" -> 108 [] c = "m" -> 109
      [] c = "o" -> 111 [] c = "s" -> 115 [] c = "t" -> 116 [] c = "v" -> 118
      [] c = "w" -> 119 [] c = "x" -> 120 [] c = "z" -> 122

\* the bytes of a string literal given as a tuple of its characters
B(chars) == [i \in 1..Len(chars) |-> Ascii(chars[i])]

Min(a, b) == IF a < b THEN a ELSE b

IsDigit(c) == c >= 48 /\ c <= 57

\* str.isspace: space, \t, \n, \v, \f, \r
IsSpace(c) == c = 32 \/ (c >= 9 /\ c <= 13)

\* s[i:] of Python, i >= 0
From(s, i) == SubSeq(s, i + 1, Len(s))

\* s[:k] of Python for k >= 0, and s[:-k] for a negative argument
Upto(s, k) ==
    IF k >= 0 THEN SubSeq(s, 1, Min(k, Len(s))) ELSE SubSeq(s, 1, Len(s) + k)

RECURSIVE LStrip(_)
LStrip(s) ==
    IF s # <<>> /\ IsSpace(s[1]) THEN LStrip(Tail(s)) ELSE s

RECURSIVE RStrip(_)
RStrip(s) ==
    IF s # <<>> /\ IsSpace(s[Len(s)]) THEN RStrip(SubSeq(s, 1, Len(s) - 1)) ELSE s

\* str.strip()
Strip(s) == RStrip(LStrip(s))

\* the index of the first element of s at or after i that is no digit
RECURSIVE RunEnd(_, _)
RunEnd(s, i) ==
    IF i <= Len(s) /\ IsDigit(s[i]) THEN RunEnd(s, i + 1) ELSE i

\* the index of the first element of s at or after i that is white space
RECURSIVE TokenEnd(_, _)
TokenEnd(s, i) ==
    IF i <= Len(s) /\ ~IsSpace(s[i]) THEN TokenEnd(s, i + 1) ELSE i

\* str.split() without arguments: the runs of non-space characters
RECURSIVE Split(_)
Split(s) ==
    LET t == LStrip(s)
        e == TokenEnd(t, 1)
    IN  IF t = <<>> THEN <<>>
        ELSE <<SubSeq(t, 1, e - 1)>> \o Split(From(t, e - 1))

\* the index of the first occurrence of byte c in s, 0 when there is none
RECURSIVE Find(_, _, _)
Find(s, c, i) ==
    IF i > Len(s) THEN 0 ELSE IF s[i] = c THEN i ELSE Find(s, c, i + 1)

\* the value of a sequence of ASCII digits
RECURSIVE DigitsValue(_)
DigitsValue(ds) ==
    IF ds = <<>> THEN 0
    ELSE 10 * DigitsValue(SubSeq(ds, 1, Len(ds) - 1)) + (ds[Len(ds)] - 48)

\* str(n) built by a loop that runs while n > 0: nothing for 0
RECURSIVE Str_NoZero(_)
Str_NoZero(n) ==
    IF n = 0 THEN <<>> ELSE Str_NoZero(n \div 10) \o <<48 + (n % 10)>>

\* str(n) of a non-negative int
RECURSIVE Str(_)
Str(n) ==
    IF n < 10 THEN <<48 + n>> ELSE Str(n \div 10) \o <<48 + (n % 10)>>

\* int() of the digits ds that follow an optional sign
IntDigits(neg, ds) ==
    IF ds # <<>> /\ RunEnd(ds, 1) = Len(ds) + 1
    THEN [ok |-> TRUE, val |-> IF neg THEN 0 - DigitsValue(ds) ELSE DigitsValue(ds)]
    ELSE [ok |-> FALSE, val |-> 0]

\* int() of a string without white space around it
IntStripped(t) ==
    IF t # <<>> /\ t[1] \in {43, 45}
    THEN IntDigits(t[1] = 45, Tail(t))
    ELSE IntDigits(FALSE, t)

\* int(s): white space stripped, an optional sign, one or more digits;
\* anything else raises ValueError
IntParse(s) == IntStripped(Strip(s))

\* file.read(k) at offset pos: at most k bytes, fewer at the end of the file
Read(f, pos, k) == SubSeq(f, pos + 1, Min(pos + k, Len(f)))

(***************************************************************************)
(* Python floats.                                                          *)
(***************************************************************************)
Zero == [neg |-> FALSE, digits |-> <<>>, exp |-> 0]

DigitVals(ds) == [i \in 1..Len(ds) |-> ds[i] - 48]

RECURSIVE DropLeadingZeros(_)
DropLeadingZeros(ds) ==
    IF ds # <<>> /\ ds[1] = 0 THEN DropLeadingZeros(Tail(ds)) ELSE ds

RECURSIVE DropTrailingZeros(_)
DropTrailingZeros(ds) ==
    IF ds # <<>> /\ ds[Len(ds)] = 0
    THEN DropTrailingZeros(SubSeq(ds, 1, Len(ds) - 1)) ELSE ds

\* the integer written by a sequence of digit values
RECURSIVE DigVal(_)
DigVal(ds) ==
    IF ds = <<>> THEN 0
    ELSE 10 * DigVal(SubSeq(ds, 1, Len(ds) - 1)) + ds[Len(ds)]

\* the float of sign neg whose digits all (nInt of them before the point)
\* are sig after their leading zeros, times 10^E
FloatValue(neg, nInt, all, sig, E) ==
    IF sig = <<>> THEN [neg |-> neg, digits |-> <<>>, exp |-> 0]
    ELSE [neg |-> neg, digits |-> DropTrailingZeros(sig),
          exp |-> nInt - 1 - (Len(all) - Len(sig)) + E]

FloatDigits(ok, neg, nInt, all, E) ==
    IF ~ok THEN [ok |-> FALSE, val |-> Zero]
    ELSE [ok |-> TRUE, val |-> FloatValue(neg, nInt, all, DropLeadingZeros(all), E)]

\* t holds a sign before i0, integer digits in i0..i1-1, fraction digits in
\* f0..f1-1 and exponent digits in e0..e1-1
ScanEnd(t, i0, i1, f0, f1, e0, e1) ==
    LET hasExp == e0 > f1
        expDs == SubSeq(t, e0, e1 - 1)
    IN  FloatDigits(/\ (i1 - i0) + (f1 - f0) > 0
                    /\ hasExp => expDs # <<>>
                    /\ e1 = Len(t) + 1,
                    i0 = 2 /\ t[1] = 45,
                    i1 - i0,
                    DigitVals(SubSeq(t, i0, i1 - 1) \o SubSeq(t, f0, f1 - 1)),
                    IF ~hasExp THEN 0
                    ELSE IF e0 = f1 + 2 /\ t[f1 + 1] = 45 THEN 0 - DigitsValue(expDs)
                    ELSE DigitsValue(expDs))

ScanExp(t, i0, i1, f0, f1, e0) == ScanEnd(t, i0, i1, f0, f1, e0, RunEnd(t, e0))

ScanFrac(t, i0, i1, f0, f1) ==
    ScanExp(t, i0, i1, f0, f1,
            IF f1 <= Len(t) /\ t[f1] \in {101, 69}
            THEN (IF f1 + 1 <= Len(t) /\ t[f1 + 1] \in {43, 45} THEN f1 + 2 ELSE f1 + 1)
            ELSE f1)

ScanPoint(t, i0, i1, f0) == ScanFrac(t, i0, i1, f0, RunEnd(t, f0))

ScanInt(t, i0, i1) ==
    ScanPoint(t, i0, i1, IF i1 <= Len(t) /\ t[i1] = 46 THEN i1 + 1 ELSE i1)

ScanSign(t, i0) == ScanInt(t, i0, RunEnd(t, i0))

\* float(s): [sign] digits [. digits] [e [sign] digits], white space stripped;
\* anything else raises ValueError
ParseFloatStripped(t) ==
    ScanSign(t, IF t # <<>> /\ t[1] \in {43, 45} THEN 2 ELSE 1)

ParseFloat(s) == ParseFloatStripped(Strip(s))

\* a digit sequence plus one; a carry out of the front lengthens it
RECURSIVE Incr(_)
Incr(ds) ==
    IF ds = <<>> THEN <<1>>
    ELSE IF ds[Len(ds)] < 9 THEN [ds EXCEPT ![Len(ds)] = @ + 1]
    ELSE Incr(SubSeq(ds, 1, Len(ds) - 1)) \o <<0>>

\* n zero digits, none for n <= 0
Zeros(n) == IF n <= 0 THEN <<>> ELSE [i \in 1..n |-> 0]

\* the text of the float of sign neg with the 11 digits m and exponent e
FormatDigits(neg, m, e) ==
    (IF neg THEN <<45>> ELSE <<>>)
    \o <<48 + m[1], 46>> \o [i \in 1..10 |-> 48 + m[i + 1]]
    \o <<101, IF e < 0 THEN 45 ELSE 43>>
    \o (IF e > -10 /\ e < 10 THEN <<48>> ELSE <<>>)
    \o Str(IF e < 0 THEN 0 - e ELSE e)

\* r: the first 11 digits of x after rounding, 12 when the rounding carried
FormatRounded(x, r) ==
    FormatDigits(x.neg,
                 SubSeq(r, 1, Min(11, Len(r))) \o Zeros(11 - Len(r)),
                 IF x.digits = <<>> THEN 0
                 ELSE IF Len(r) > 11 THEN x.exp + 1 ELSE x.exp)

\* whether the digits tail, cut off after the digits head, round head up
RoundsUp(head, tail) ==
    /\ tail # <<>>
    /\ \/ tail[1] > 5
       \/ tail[1] = 5 /\ (Len(tail) > 1 \/ head[Len(head)] % 2 = 1)

FormatHead(x, head, tail) ==
    FormatRounded(x, IF RoundsUp(head, tail) THEN Incr(head) ELSE head)

\* '{0:0.10e}'.format(x): one digit, a point, 10 digits (rounded half to
\* even), 'e', the exponent's sign and at least two exponent digits
FormatE(x) ==
    FormatHead(x, SubSeq(x.digits, 1, Min(11, Len(x.digits))),
               SubSeq(x.digits, 12, Len(x.digits)))

\* num/den scaled by powers of two into [1, 2): <<num, den, exponent>>
RECURSIVE Norm(_, _, _)
Norm(num, den, e) ==
    IF num >= 2 * den THEN Norm(num, 2 * den, e + 1)
    ELSE IF num < den THEN Norm(2 * num, den, e - 1)
    ELSE <<num, den, e>>

\* k more bits of the binary expansion of r/den: <<bits, remainder>>
RECURSIVE Bits(_, _, _, _)
Bits(r, den, k, acc) ==
    IF k = 0 THEN <<acc, r>>
    ELSE LET b == IF 2 * r >= den THEN 1 ELSE 0
         IN  Bits(2 * r - b * den, den, k - 1, 2 * acc + b)

\* the single of sign neg, exponent e and 24-bit significand 2^23 + m
Single(neg, e, m) ==
    [sign |-> IF neg THEN 1 ELSE 0,
     exp |-> 127 + (IF m = 2^23 THEN e + 1 ELSE e),
     mant |-> IF m = 2^23 THEN 0 ELSE m]

\* br: the 23 bits after the leading one and the remainder, over den
Rounded(neg, den, e, br) ==
    [ok |-> TRUE, exact |-> br[2] = 0,
     f |-> Single(neg, e,
                  IF 2 * br[2] > den \/ (2 * br[2] = den /\ br[1] % 2 = 1)
                  THEN br[1] + 1 ELSE br[1])]

Narrowed(neg, nm) == Rounded(neg, nm[2], nm[3], Bits(nm[1] - nm[2], nm[2], 23, 0))

\* N * 10^p as a single
NarrowDecimal(neg, N, p) ==
    Narrowed(neg, Norm(IF p >= 0 THEN N * 10^p ELSE N,
                       IF p >= 0 THEN 1 ELSE 10^(0 - p), 0))

\* The double x narrowed to an IEEE-754 single as struct.pack('<f') does:
\* round to nearest, ties to even; OverflowError beyond the single's range.
\* exact tells whether x is a single already.
DecToF32(x) ==
    IF x.digits = <<>>
    THEN [ok |-> TRUE, exact |-> TRUE, f |-> Single(x.neg, 0 - 127, 0)]
    ELSE IF x.exp > 38
    THEN [ok |-> FALSE, exact |-> FALSE, f |-> Single(FALSE, 0 - 127, 0)]
    ELSE NarrowDecimal(x.neg, DigVal(x.digits), x.exp - Len(x.digits) + 1)

\* struct.pack('<f', .): the four bytes of a single, least significant first
Pack_f(f) ==
    << f.mant % 256,
       (f.mant \div 256) % 256,
       (f.mant \div 65536) + 128 * (f.exp % 2),
       128 * f.sign + (f.exp \div 2) >>

\* struct.unpack('<f', .)[0]
Unpack_f(b) ==
    [sign |-> b[4] \div 128,
     exp |-> 2 * (b[4] % 128) + (b[3] \div 128),
     mant |-> 65536 * (b[3] % 128) + 256 * b[2] + b[1]]

(***************************************************************************)
(* WFMFile.                                                                *)
(***************************************************************************)
header == B(<<"M", "A", "G", "I", "C", " ", "1", "0", "0", "0", "\r", "\n">>)

\* the prefix with the digits of the item count counted for num_digits
BodyPrefix_CountsItems(n) ==
    <<35>> \o Str(Len(Str(n))) \o Str(5 * n)

\* what write_data writes between the header and the records for len(data) = n
BodyPrefix(n) ==
    LET num_bytes == 5 * n
        num_digits == Len(Str(num_bytes))
    IN  <<35>> \o Str(num_digits) \o Str(num_bytes)

\* struct.pack('<fb', item, 0)
PackRecord(f) == Pack_f(f) \o <<0>>

\* one pass of the loop of write_data: acc so far, c the item as a single
RECURSIVE WriteItems(_, _)
WriteItem(data, acc, c) ==
    IF ~c.ok THEN [bytes |-> acc, err |-> "OverflowError"]
    ELSE WriteItems(Tail(data), acc \o PackRecord(c.f))

\* the loop of write_data; an item too large for a single stops it
WriteItems(data, acc) ==
    IF data = <<>> THEN [bytes |-> acc, err |-> "none"]
    ELSE WriteItem(data, acc, DecToF32(data[1]))

\* line 66 of write_data, after the loop
WriteTrailer(body, clk) ==
    IF body.err # "none" THEN body
    ELSE [bytes |-> body.bytes \o B(<<"C", "L", "O", "C", "K", " ">>)
                    \o FormatE(clk) \o <<10>>,
          err |-> "none"]

\* WFMFile.write_data(data, clock): the bytes written and the exception raised
write_data(data, clk) ==
    WriteTrailer(WriteItems(data, header \o BodyPrefix(Len(data))), clk)

\* one pass of the while loop of read_data: bunch = self.read(5) at pos
RECURSIVE ReadRecords(_, _, _, _, _)
ReadRecord(f, pos, counter, num_bytes, data, bunch) ==
    IF Len(Upto(bunch, 4)) # 4
    THEN [err |-> "struct.error", pos |-> pos + Len(bunch), data |-> data]
    ELSE ReadRecords(f, pos + Len(bunch), counter + 5, num_bytes,
                     Append(data, Unpack_f(Upto(bunch, 4))))

\* the while loop of read_data from offset pos
ReadRecords(f, pos, counter, num_bytes, data) ==
    IF counter < num_bytes
    THEN ReadRecord(f, pos, counter, num_bytes, data, Read(f, pos, 5))
    ELSE [err |-> "none", pos |-> pos, data |-> data]

\* what read_data leaves behind when it raises err at offset pos
Raised(err, pos, hdr, nb, start) ==
    [err |-> err, returned |-> FALSE, data |-> <<>>, clock |-> <<>>,
     header |-> hdr, pos |-> pos, num_bytes |-> nb, found |-> nb \div 5,
     bodyStart |-> start]

\* read_data taking the trailer as optional: no clock, the data returned
ReadClock_Lenient(f, hdr, p4, nb, loop, rest) ==
    [err |-> "none", returned |-> TRUE, data |-> loop.data,
     clock |-> IF Len(rest) < 2 THEN <<>> ELSE rest[2], header |-> hdr,
     pos |-> Len(f), num_bytes |-> nb, found |-> nb \div 5, bodyStart |-> p4]

\* line 56-57: self.clock = self.read().split()[1]; return data
ReadClock(f, hdr, p4, nb, loop, rest) ==
    IF Len(rest) < 2 THEN Raised("IndexError", Len(f), hdr, nb, p4)
    ELSE [err |-> "none", returned |-> TRUE, data |-> loop.data,
          clock |-> rest[2], header |-> hdr, pos |-> Len(f),
          num_bytes |-> nb, found |-> nb \div 5, bodyStart |-> p4]

\* after the loop of lines 49-55
ReadLoopDone(f, hdr, p4, nb, loop) ==
    IF loop.err # "none" THEN Raised(loop.err, loop.pos, hdr, nb, p4)
    ELSE ReadClock(f, hdr, p4, nb, loop, Split(From(f, loop.pos)))

\* lines 46-55, num_bytes being int() of the length field that ends at p4
ReadBody(f, hdr, p4, num_bytes) ==
    IF ~num_bytes.ok THEN Raised("ValueError", p4, hdr, 0, p4)
    ELSE ReadLoopDone(f, hdr, p4, num_bytes.val,
                      ReadRecords(f, p4, 0, num_bytes.val, <<>>))

ReadLengthField(f, hdr, p3, lenField) ==
    ReadBody(f, hdr, p3 + Len(lenField), IntParse(lenField))

\* line 45, num_digits being int() of the character that ends at p3
ReadNumBytes(f, hdr, p3, num_digits) ==
    IF ~num_digits.ok THEN Raised("ValueError", p3, hdr, 0, p3)
    ELSE ReadLengthField(f, hdr, p3, Read(f, p3, num_digits.val))

\* line 44, d being the character read
ReadNumDigits(f, hdr, p2, d) == ReadNumBytes(f, hdr, p2 + Len(d), IntParse(d))

\* line 43: one character is read and dropped
ReadHash(f, hdr, p1) ==
    ReadNumDigits(f, hdr, p1 + Len(Read(f, p1, 1)),
                  Read(f, p1 + Len(Read(f, p1, 1)), 1))

\* line 42: twelve characters are read into header, which nothing looks at
ReadHeader(f, hdr) == ReadHash(f, hdr, Len(hdr))

\* WFMFile.read_data() on a file holding the bytes f
read_data(f) == ReadHeader(f, Read(f, 0, 12))

(***************************************************************************)
(* The length prefix of write_data, over len(data).                        *)
(***************************************************************************)
\* the lengths at which the digit count of 5 * len(data) changes
EdgeLens ==
    {99, 1000, (10^9 \div 5) - 1, 10^9 \div 5, (10^9 \div 5) + 1}

Lengths == (0..MaxLen) \cup EdgeLens

\* lines 60-62 of write_data on a list of plen items
WritePrefix ==
    /\ ~pout.written
    /\ pout' = [written |-> TRUE, bytes |-> BodyPrefix(plen), err |-> "none"]
    /\ UNCHANGED plen

(***************************************************************************)
(* The codec: a file is written by write_data or comes from outside, and   *)
(* is read by read_data.                                                   *)
(***************************************************************************)
D(neg, digits, exp) == [neg |-> neg, digits |-> digits, exp |-> exp]

\* amplitudes that are singles: 0.0, 1.0, -0.5, 3.0
Amplitudes ==
    {Zero, D(FALSE, <<1>>, 0), D(TRUE, <<5>>, -1), D(FALSE, <<3>>, 0)}

\* marker bytes: none, both markers, a reserved bit
Markers == {0, 3, 128}

Samples == [amplitude : Amplitudes, marker : Markers]

RECURSIVE SeqsUpTo(_, _)
SeqsUpTo(S, n) ==
    IF n = 0 THEN {<<>>}
    ELSE LET shorter == SeqsUpTo(S, n - 1)
         IN  shorter \cup {Append(q, x) : q \in {r \in shorter : Len(r) = n - 1}, x \in S}

\* clock rates: 1e9, 1.23456789012e8 (more digits than the trailer keeps), 0
Clocks ==
    {D(FALSE, <<1>>, 9), D(FALSE, <<1, 2, 3, 4, 5, 6, 7, 8, 9, 0, 1, 2>>, 8), Zero}

\* two records as an instrument writes them, markers set: 1.0/3, -0.5/0x80
Pattern == <<0, 0, 128, 63, 3, 0, 0, 0, 191, 128>>

BodyBytes(k) == [i \in 1..k |-> Pattern[((i - 1) % Len(Pattern)) + 1]]

Headers ==
    {header,
     B(<<"M", "A", "G", "I", "C", " ", "2", "0", "0", "0", "\r", "\n">>)}

Trailers ==
    {B(<<"C", "L", "O", "C", "K", " ", "1", ".", "0", "0", "0", "0", "0", "0",
         "0", "0", "0", "0", "e", "+", "0", "9", "\r", "\n">>),
     B(<<"C", "L", "O", "C", "K">>),
     <<>>}

\* a file from outside: a header, '#', the digit count and length field of
\* `declared`, `present` body bytes and a trailer
ExternalFile(hdr, declared, present, trailer) ==
    hdr \o <<35>> \o Str(Len(Str(declared))) \o Str(declared)
        \o BodyBytes(present) \o trailer

NoResult ==
    [err |-> "none", returned |-> FALSE, data |-> <<>>, clock |-> <<>>,
     header |-> <<>>, pos |-> 0, num_bytes |-> 0, found |-> 0, bodyStart |-> 0]

\* a series is written to a fresh file with write_data
Encode ==
    /\ origin.kind = "none"
    /\ \E S \in SeqsUpTo(Samples, MaxSamples), c \in Clocks :
         LET w == write_data([i \in 1..Len(S) |-> S[i].amplitude], c)
         IN  /\ series' = S
             /\ clock' = c
             /\ wfm' = w.bytes
             /\ origin' = [kind |-> "encoded", err |-> w.err]
    /\ UNCHANGED res

\* a file that write_data did not write is opened
LoadExternal ==
    /\ origin.kind = "none"
    /\ \E hdr \in Headers, declared \in 0..MaxDeclared,
          present \in 0..MaxBody, trailer \in Trailers :
         /\ wfm' = ExternalFile(hdr, declared, present, trailer)
         /\ origin' = [kind |-> "external", header |-> hdr,
                       declared |-> declared, present |-> present,
                       trailer |-> trailer]
    /\ UNCHANGED <<series, clock, res>>

\* the file is read with read_data
Decode ==
    /\ origin.kind \in {"encoded", "external"}
    /\ res = NoResult
    /\ res' = read_data(wfm)
    /\ UNCHANGED <<series, clock, wfm, origin>>

(***************************************************************************)
(* PulseTxtFile.                                                           *)
(***************************************************************************)
\* file.readline() on the bytes s: <<the line with its \n, the rest>>
ReadLine(s) ==
    LET i == Find(s, 10, 1)
        line == IF i = 0 THEN s ELSE SubSeq(s, 1, i)
    IN  <<line, From(s, Len(line))>>

\* t.split('=')[1] for a t whose first '=' is at i (0: none, IndexError)
SecondPart(t, i, after) ==
    IF i = 0 THEN [ok |-> FALSE, val |-> <<>>]
    ELSE [ok |-> TRUE,
          val |-> IF Find(after, 61, 1) = 0 THEN after
                  ELSE SubSeq(after, 1, Find(after, 61, 1) - 1)]

FieldAt(t, i) == SecondPart(t, i, From(t, i))

FieldStripped(t) == FieldAt(t, Find(t, 61, 1))

\* line[1:].strip().split('=')[1]; IndexError when the line holds no '='
Field(line) == FieldStripped(Strip(From(line, 1)))

\* the numbers np.fromstring reads: tokens in order, up to limit when it is
\* not negative, stopping at the first token that is no number
RECURSIVE ParseTokens(_, _, _)
ParseTokens(toks, limit, acc) ==
    IF toks = <<>> \/ (limit >= 0 /\ Len(acc) = limit) THEN acc
    ELSE LET p == ParseFloat(toks[1])
         IN  IF ~p.ok THEN acc
             ELSE ParseTokens(Tail(toks), limit, Append(acc, p.val))

\* what an element of the array that fromstring never wrote may hold
Garbage == {Zero, D(FALSE, <<1>>, 40)}

\* the arrays fromstring may return having read the numbers read of count
Arrays(read, count) ==
    IF count - Len(read) <= 0 THEN {read}
    ELSE {read} \cup {read \o [i \in 1..(count - Len(read)) |-> g] : g \in Garbage}

\* np.fromstring(str, dtype=np.double, count=size, sep='\r\n'): the arrays it
\* may return.  With fewer numbers than count the array is cut to the
\* numbers read or keeps count elements, the last ones never written.
FromString(str, count) == Arrays(ParseTokens(Split(str), count, <<>>), count)

TxtRaised(err) == [err |-> err, clock |-> Zero, size |-> 0, data |-> <<>>]

\* line 82-83, clk and size being the values of the first two lines
TxtData(clk, size, str) ==
    {[err |-> "none", clock |-> clk, size |-> size, data |-> d] :
        d \in FromString(str, size)}

\* line 80: size = int(...)
TxtSizeValue(clk, size, str) ==
    IF ~size.ok THEN {TxtRaised("ValueError")} ELSE TxtData(clk, size.val, str)

TxtSizeField(clk, z, str) ==
    IF ~z.ok THEN {TxtRaised("IndexError")}
    ELSE TxtSizeValue(clk, IntParse(z.val), str)

TxtSizeLine(clk, l2) == TxtSizeField(clk, Field(l2[1]), l2[2])

\* line 79: clock = float(...)
TxtClockValue(clk, rest) ==
    IF ~clk.ok THEN {TxtRaised("ValueError")}
    ELSE TxtSizeLine(clk.val, ReadLine(rest))

TxtClockField(c, rest) ==
    IF ~c.ok THEN {TxtRaised("IndexError")}
    ELSE TxtClockValue(ParseFloat(c.val), rest)

TxtClockLine(l1) == TxtClockField(Field(l1[1]), l1[2])

\* PulseTxtFile.read_data() on a file holding the bytes text: the set of
\* its possible outcomes (clock, size, data) or the exception raised
PulseTxt_read_data(text) == TxtClockLine(ReadLine(text))

(***************************************************************************)
(* Converter.                                                              *)
(***************************************************************************)
ACsv == B(<<"a", ".", "c", "s", "v">>)
ATxt == B(<<"a", ".", "t", "x", "t">>)
BTxt == B(<<"b", ".", "t", "x", "t">>)
Hidden == B(<<".", "b", ".", "t", "x", "t">>)

\* fnameRoot + '.wfm' for fnameRoot = fname[:-4]
NewFileName(fname) == Upto(fname, 0 - 4) \o B(<<".", "w", "f", "m">>)

\* the order in which the directory yields its entries (os.listdir promises none)
DirOrder == <<BTxt, NewFileName(BTxt), ATxt, Hidden, NewFileName(ATxt), ACsv>>

FileNames == {DirOrder[i] : i \in 1..Len(DirOrder)}

NoFile == [exists |-> FALSE, bytes |-> <<>>]

File(bytes) == [exists |-> TRUE, bytes |-> bytes]

CRLF == B(<<"\r", "\n">>)

ClockLine1 == B(<<"#", "c", "l", "o", "c", "k", "=", "1", "e", "9">>) \o CRLF
ClockLine2 == B(<<"#", "c", "l", "o", "c", "k", "=", "2", ".", "5", "e", "8">>) \o CRLF
SizeLine(n) == B(<<"#", "s", "i", "z", "e", "=">>) \o Str(n) \o CRLF

\* the texts a source file may hold
TxtTwo == ClockLine1 \o SizeLine(2) \o B(<<"1">>) \o CRLF \o B(<<"-", "0", ".", "5">>) \o CRLF
TxtOne == ClockLine2 \o SizeLine(1) \o B(<<"3">>) \o CRLF
TxtShort == ClockLine1 \o SizeLine(3) \o B(<<"1">>) \o CRLF \o B(<<"3">>) \o CRLF
TxtZero == ClockLine2 \o SizeLine(0) \o B(<<"1">>) \o CRLF \o B(<<"3">>) \o CRLF
TxtNoEq == B(<<"#", "c", "l", "o", "c", "k", " ", "1", "e", "9">>) \o CRLF \o SizeLine(1)
              \o B(<<"1">>) \o CRLF
TxtBadSize == ClockLine1 \o B(<<"#", "s", "i", "z", "e", "=", "x">>) \o CRLF
TxtHuge == ClockLine1 \o SizeLine(2) \o B(<<"1">>) \o CRLF \o B(<<"1", "e", "4", "0">>) \o CRLF

Texts == {TxtTwo, TxtOne, TxtShort, TxtZero, TxtNoEq, TxtBadSize, TxtHuge}

\* the entries among seq that exist in dir and do not start with '.'
RECURSIVE Visible(_, _)
Visible(seq, dir) ==
    IF seq = <<>> THEN <<>>
    ELSE (IF dir[seq[1]].exists /\ seq[1][1] # 46 THEN <<seq[1]>> ELSE <<>>)
         \o Visible(Tail(seq), dir)

\* _update_choices for a homeDir that is the working directory, whose files
\* are dir: os.listdir without the entries that start with '.'
Listing(dir) == Visible(DirOrder, dir)

\* the entries of the one other directory homeDir may name
Elsewhere == <<BTxt, Hidden, ATxt>>

\* _update_choices: choices stay as they are when os.listdir raises OSError
update_choices(home, dir, old) ==
    IF home = "cwd" THEN Listing(dir)
    ELSE IF home = "elsewhere" THEN Visible(Elsewhere, [n \in FileNames |-> File(<<>>)])
    ELSE old

\* the lists of at most n different elements of the list seq
Picks(seq, n) ==
    {q \in SeqsUpTo({seq[i] : i \in 1..Len(seq)}, n) :
        \A i, j \in 1..Len(q) : i # j => q[i] # q[j]}

NoParse == [err |-> "none", clock |-> Zero, size |-> 0, data |-> <<>>]

Idle == pc \in {"idle", "done"}


\* _feedback(txt): one more line of status text
feedback == statusText' = statusText + 1

\* _homeDir_changed(new)
HomeDirChanged ==
    /\ Idle
    /\ statusText < MaxFeedback
    /\ \E new \in {"cwd", "elsewhere", "notadir"} \ {homeDir} :
         /\ homeDir' = new
         /\ IF new = "notadir"
            THEN /\ feedback
                 /\ UNCHANGED choices
            ELSE /\ choices' = update_choices(new, fs, choices)
                 /\ feedback
    /\ pc' = "idle"
    /\ UNCHANGED <<fs, selected, idx, parsed, exc>>

\* _fire_reload_fired()
FireReload ==
    /\ Idle
    /\ statusText < MaxFeedback
    /\ choices' = update_choices(homeDir, fs, choices)
    /\ feedback
    /\ pc' = "idle"
    /\ UNCHANGED <<fs, selected, idx, parsed, exc, homeDir>>

\* the user selects rows of the choices table
Select ==
    /\ Idle
    /\ \E q \in Picks(choices, MaxSelected) :
         /\ q # selected
         /\ selected' = q
    /\ pc' = "idle"
    /\ UNCHANGED <<fs, choices, statusText, idx, parsed, exc, homeDir>>

\* _fire_convert_fired(): convert() starts on the first selected file
FireConvert ==
    /\ Idle
    /\ statusText + Len(selected) < MaxFeedback
    /\ pc' = "iter"
    /\ idx' = 1
    /\ exc' = "none"
    /\ parsed' = NoParse
    /\ UNCHANGED <<fs, choices, selected, statusText, homeDir>>

\* convert() with the destination opened before the source is read
ConvertReadSource_DestFirst ==
    /\ pc = "iter"
    /\ idx <= Len(selected)
    /\ fs' = [fs EXCEPT ![NewFileName(selected[idx])] = File(<<>>)]
    /\ LET fname == selected[idx]
       IN  IF ~fs[fname].exists
           THEN /\ exc' = "IOError"
                /\ pc' = "idle"
                /\ UNCHANGED parsed
           ELSE \E r \in PulseTxt_read_data(fs[fname].bytes) :
                  /\ exc' = r.err
                  /\ pc' = IF r.err = "none" THEN "write" ELSE "idle"
                  /\ parsed' = r
    /\ UNCHANGED <<choices, selected, statusText, idx, homeDir>>

\* convert(), lines 163-165: the source is opened, read and closed.  An
\* exception leaves convert.
ConvertReadSource ==
    /\ pc = "iter"
    /\ idx <= Len(selected)
    /\ LET fname == selected[idx]
       IN  IF ~fs[fname].exists
           THEN /\ exc' = "IOError"
                /\ pc' = "idle"
                /\ UNCHANGED parsed
           ELSE \E r \in PulseTxt_read_data(fs[fname].bytes) :
                  /\ exc' = r.err
                  /\ pc' = IF r.err = "none" THEN "opendest" ELSE "idle"
                  /\ parsed' = r
    /\ UNCHANGED <<fs, choices, selected, statusText, idx, homeDir>>

\* convert(), lines 166-168: WFMFile(newFileName, 'wb') creates or empties
\* the destination
ConvertOpenDest ==
    /\ pc = "opendest"
    /\ fs' = [fs EXCEPT ![NewFileName(selected[idx])] = File(<<>>)]
    /\ pc' = "write"
    /\ UNCHANGED <<choices, selected, statusText, idx, parsed, exc, homeDir>>

\* convert(), lines 169-171: write_data, close, feedback; on to the next file
ConvertWriteData ==
    /\ pc = "write"
    /\ LET newFileName == NewFileName(selected[idx])
           w == write_data(parsed.data, parsed.clock)
       IN  /\ fs' = [fs EXCEPT ![newFileName] = File(w.bytes)]
           /\ exc' = w.err
           /\ IF w.err = "none"
              THEN /\ feedback
                   /\ idx' = idx + 1
                   /\ pc' = "iter"
              ELSE /\ pc' = "idle"
                   /\ UNCHANGED <<statusText, idx>>
    /\ UNCHANGED <<choices, selected, parsed, homeDir>>

\* convert(), line 172: after the last file, _fire_reload_fired()
ConvertFinish ==
    /\ pc = "iter"
    /\ idx > Len(selected)
    /\ choices' = update_choices(homeDir, fs, choices)
    /\ feedback
    /\ pc' = "done"
    /\ UNCHANGED <<fs, selected, idx, parsed, exc, homeDir>>

(***************************************************************************)
(* Specifications.                                                         *)
(***************************************************************************)
\* the converter application, as constructed in __main__
Init ==
    /\ \E csv \in {File(TxtTwo), File(TxtShort)},
          txt \in {File(TxtOne), File(TxtZero), File(TxtHuge), File(TxtNoEq), NoFile},
          old \in {NoFile, File(TxtOne)} :
         fs = [n \in FileNames |->
                 CASE n = ACsv -> csv
                   [] n = ATxt -> txt
                   [] n = BTxt -> File(TxtBadSize)
                   [] n = Hidden -> File(TxtOne)
                   [] n = NewFileName(ATxt) -> old
                   [] OTHER -> NoFile]
    /\ choices = <<>>
    /\ selected = <<>>
    /\ statusText = 0
    /\ pc = "idle"
    /\ idx = 0
    /\ parsed = NoParse
    /\ exc = "none"
    /\ homeDir = "unset"
    /\ series = <<>>
    /\ clock = Zero
    /\ wfm = <<>>
    /\ origin = [kind |-> "none"]
    /\ res = NoResult
    /\ plen = 0
    /\ pout = [written |-> FALSE, bytes |-> <<>>, err |-> "none"]

Next ==
    \/ HomeDirChanged /\ UNCHANGED <<codecVars, prefixVars>>
    \/ FireReload /\ UNCHANGED <<codecVars, prefixVars>>
    \/ Select /\ UNCHANGED <<codecVars, prefixVars>>
    \/ FireConvert /\ UNCHANGED <<codecVars, prefixVars>>
    \/ ConvertReadSource /\ UNCHANGED <<codecVars, prefixVars>>
    \/ ConvertOpenDest /\ UNCHANGED <<codecVars, prefixVars>>
    \/ ConvertWriteData /\ UNCHANGED <<codecVars, prefixVars>>
    \/ ConvertFinish /\ UNCHANGED <<codecVars, prefixVars>>

Spec == Init /\ [][Next]_vars

\* one waveform file, written by write_data or loaded, then read by read_data
InitCodec ==
    /\ series = <<>>
    /\ clock = Zero
    /\ wfm = <<>>
    /\ origin = [kind |-> "none"]
    /\ res = NoResult
    /\ plen = 0
    /\ pout = [written |-> FALSE, bytes |-> <<>>, err |-> "none"]
    /\ fs = [n \in FileNames |-> NoFile]
    /\ choices = <<>>
    /\ selected = <<>>
    /\ statusText = 0
    /\ pc = "idle"
    /\ idx = 0
    /\ parsed = NoParse
    /\ exc = "none"
    /\ homeDir = "unset"

NextCodec ==
    \/ Encode /\ UNCHANGED <<prefixVars, convVars>>
    \/ LoadExternal /\ UNCHANGED <<prefixVars, convVars>>
    \/ Decode /\ UNCHANGED <<prefixVars, convVars>>

SpecCodec == InitCodec /\ [][NextCodec]_vars

\* the length prefix of write_data over the lengths of the data
InitPrefix ==
    /\ plen \in Lengths
    /\ pout = [written |-> FALSE, bytes |-> <<>>, err |-> "none"]
    /\ series = <<>>
    /\ clock = Zero
    /\ wfm = <<>>
    /\ origin = [kind |-> "none"]
    /\ res = NoResult
    /\ fs = [n \in FileNames |-> NoFile]
    /\ choices = <<>>
    /\ selected = <<>>
    /\ statusText = 0
    /\ pc = "idle"
    /\ idx = 0
    /\ parsed = NoParse
    /\ exc = "none"
    /\ homeDir = "unset"

NextPrefix == WritePrefix /\ UNCHANGED <<codecVars, convVars>>

SpecPrefix == InitPrefix /\ [][NextPrefix]_vars

(***************************************************************************)
(* Properties.                                                             *)
(***************************************************************************)
Decoded == res # NoResult

\* the bytes of "MAGIC 1000\r\n"
MagicBytes == <<77, 65, 71, 73, 67, 32, 49, 48, 48, 48, 13, 10>>

\* the IEEE-754 single of each amplitude of the model
SingleOf(x) ==
    CASE x = Zero -> [sign |-> 0, exp |-> 0, mant |-> 0]
      [] x = D(FALSE, <<1>>, 0) -> [sign |-> 0, exp |-> 127, mant |-> 0]
      [] x = D(TRUE, <<5>>, -1) -> [sign |-> 1, exp |-> 126, mant |-> 0]
      [] x = D(FALSE, <<3>>, 0) -> [sign |-> 0, exp |-> 128, mant |-> 4194304]

\* C1: whatever series is written with write_data, read_data on the file
\* returns as many samples, in the same order, with the same amplitudes, and
\* every record of the file carries the marker byte of its sample.
C1_RoundTrip ==
    (origin.kind = "encoded" /\ Decoded) =>
        /\ res.returned
        /\ Len(res.data) = Len(series)
        /\ \A i \in 1..Len(series) :
             /\ res.data[i] = SingleOf(series[i].amplitude)
             /\ wfm[res.bodyStart + 5 * i] = series[i].marker

\* the part of C1 that the code keeps: count, order and amplitudes, every
\* marker byte of the file being 0
RoundTripAmplitudes ==
    (origin.kind = "encoded" /\ Decoded) =>
        /\ res.returned
        /\ Len(res.data) = Len(series)
        /\ \A i \in 1..Len(series) :
             /\ res.data[i] = SingleOf(series[i].amplitude)
             /\ wfm[res.bodyStart + 5 * i] = 0

\* the number of decimal digits of v, 0 <= v < 10^10
ActualDigits(v) ==
    CHOOSE d \in 1..10 : (d = 1 \/ v >= 10^(d - 1)) /\ (d = 10 \/ v < 10^d)

AllDigits(ds) == \A i \in 1..Len(ds) : IsDigit(ds[i])

C3_EmptySeries ==
    (origin.kind = "encoded" /\ series = <<>>) =>
        LET t == SubSeq(wfm, 22, Len(wfm) - 1)
        IN  /\ origin.err = "none"
            /\ wfm = MagicBytes \o <<35, 49, 48>> \o <<67, 76, 79, 67, 75, 32>>
                        \o t \o <<10>>
            /\ ParseFloat(t).ok
            /\ Len(clock.digits) <= 11 => ParseFloat(t).val = clock
            /\ Decoded => /\ res.err = "none"
                          /\ res.returned
                          /\ res.data = <<>>
                          /\ res.clock = t

C3_Witness ==
    /\ origin.kind = "encoded"
    /\ series = <<>>
    /\ res.returned
    /\ clock = D(FALSE, <<1>>, 9)

\* C4: read_data on a file whose first 12 bytes are not the magic literal
\* fails (any exception counts) and reads nothing beyond those 12 bytes.
C4_BadMagic ==
    (origin.kind = "external" /\ origin.header # MagicBytes /\ Decoded) =>
        /\ res.err # "none"
        /\ ~res.returned
        /\ res.pos <= 12

\* C5: for a series whose numBytes = 5 * len needs more than 9 digits,
\* write_data fails (any exception counts) and writes no length prefix.
C5_LengthFieldOverflow ==
    (pout.written /\ 5 * plen > 999999999) =>
        /\ pout.err # "none"
        /\ pout.bytes = <<>>

\* C6: a text that declares 3 samples and holds 2 numbers is never read
\* successfully: PulseTxtFile.read_data fails on it (any exception counts).
C6_SampleCountMismatch ==
    ~(/\ pc = "opendest"
      /\ fs[selected[idx]] = File(TxtShort)
      /\ parsed.err = "none")

\* C7: a step of convert in which opening or parsing the source fails leaves
\* every file as it was; the files change only once the source has been read
\* and parsed completely, and then only the one destination of that source
\* is created or overwritten.
C7_DestUntouchedOnReadFailure ==
    [][ /\ (pc = "iter" /\ idx <= Len(selected) /\ exc' # "none") => fs' = fs
        /\ pc = "opendest" =>
             /\ fs[selected[idx]].exists
             /\ parsed.err = "none"
             /\ parsed \in PulseTxt_read_data(fs[selected[idx]].bytes)
        /\ fs' # fs =>
             /\ pc \in {"opendest", "write"}
             /\ parsed.err = "none"
             /\ fs'[NewFileName(selected[idx])].exists
             /\ \A n \in FileNames \ {NewFileName(selected[idx])} : fs'[n] = fs[n]
      ]_vars

C7_Witness ==
    /\ pc = "idle"
    /\ idx = 2
    /\ Len(selected) = 2
    /\ exc = "IndexError"
    /\ fs[NewFileName(selected[1])].exists
    /\ ~fs[NewFileName(selected[2])].exists

\* whether the bytes a come before the bytes b in alphabetical order
RECURSIVE LexLess(_, _)
LexLess(a, b) ==
    IF b = <<>> THEN FALSE
    ELSE IF a = <<>> THEN TRUE
    ELSE IF a[1] # b[1] THEN a[1] < b[1]
    ELSE LexLess(Tail(a), Tail(b))

\* C8: after a batch of two sources whose names differ only in their last
\* four characters, their one destination holds the conversion of the source
\* that is later in the alphabet, whatever their order in the selected list.
C8_LaterInAlphabetWins ==
    (/\ pc = "done"
     /\ exc = "none"
     /\ Len(selected) = 2
     /\ NewFileName(selected[1]) = NewFileName(selected[2])
     /\ NewFileName(selected[1]) \notin {selected[1], selected[2]}) =>
        LET later == IF LexLess(selected[1], selected[2])
                     THEN selected[2] ELSE selected[1]
        IN  \E o \in PulseTxt_read_data(fs[later].bytes) :
              /\ o.err = "none"
              /\ fs[NewFileName(later)] = File(write_data(o.data, o.clock).bytes)

\* what the code does in the case of C8: the destination holds the conversion
\* of the source that is last in the selected list
LastSelectedWins ==
    (/\ pc = "done"
     /\ exc = "none"
     /\ Len(selected) = 2
     /\ NewFileName(selected[1]) = NewFileName(selected[2])
     /\ NewFileName(selected[1]) \notin {selected[1], selected[2]}) =>
        \E o \in PulseTxt_read_data(fs[selected[2]].bytes) :
          /\ o.err = "none"
          /\ fs[NewFileName(selected[2])] = File(write_data(o.data, o.clock).bytes)

\* C9: read_data on a file with the magic header and a length prefix whose
\* numBytes is no multiple of 5 fails (any exception counts): it returns no
\* sample list and decodes no record beyond the numBytes region.
C9_MisalignedBody ==
    (/\ origin.kind = "external"
     /\ origin.header = MagicBytes
     /\ origin.declared % 5 # 0
     /\ Decoded) =>
        /\ res.err # "none"
        /\ ~res.returned

\* a file from outside with the magic header in which fewer bytes than its
\* length field declares follow the length field
Truncated ==
    /\ origin.kind = "external"
    /\ origin.header = MagicBytes
    /\ origin.present + Len(origin.trailer) < origin.declared

\* C10 as stated: read_data on a truncated body fails with the dedicated
\* error TruncatedBody and returns no samples.
C10_TruncatedBodyError ==
    (Truncated /\ Decoded) =>
        /\ res.err = "TruncatedBody"
        /\ ~res.returned

\* C10 as amended: read_data on a truncated body returns no samples and
\* raises struct.error, or IndexError from the trailer read when only the
\* last byte of the last record is missing.
C10_TruncatedBodyRaises ==
    (Truncated /\ Decoded) =>
        LET r == origin.present + Len(origin.trailer)
        IN  /\ ~res.returned
            /\ res.data = <<>>
            /\ res.err = IF r % 5 = 4 /\ r + 1 = origin.declared
                         THEN "IndexError" ELSE "struct.error"

C10_Witness ==
    /\ Truncated
    /\ Decoded
    /\ origin.declared = 10
    /\ origin.present = 9
    /\ res.err = "IndexError"

====
